---- MODULE Spec2Model ----
(***************************************************************************)
(* A model of the cost aggregation engine of sink (src/cost/spend.go):     *)
(* the provider merge, the time window resolver, the item aggregator, the  *)
(* account/provider assembler, the report builder and the serializer.      *)
(*                                                                         *)
(* Provider objects live in a heap and are referred to by their index, the *)
(* way the Go code shares them through *Provider pointers.  Time is        *)
(* counted in minutes since 1970-01-01T00:00 UTC, time.Duration in minutes *)
(* kept in a signed machine word of DurBits bits.  Amounts of money and    *)
(* averaged quantities are counted in hundredths.                          *)
(***************************************************************************)
EXTENDS Integers, Sequences, FiniteSets

VARIABLES
    heap,      \* the Provider objects: heap[p] is the object *Provider p points to
    config,    \* the Config: Providers (pointers), Duration, Directory
    collab,    \* the billing collaborator's answer to GetEC2Instances
    clock,     \* the wall clock read by time.Now()
    output,    \* the Output returned by the latest CreateReport
    fs,        \* the destination of Print: standard output and the report file
    runs,      \* the reports printed so far, each with the inputs of its run
    input,     \* the arguments drawn for the pure functions
    last       \* the latest operation: its arguments, the state before it, its results

vars == <<heap, config, collab, clock, output, fs, runs, input, last>>

(***************************************************************************)
(* Bounds of the model.                                                    *)
(***************************************************************************)
MaxDeclared == 2    \* providers declared in the Config at start
MaxNew == 2         \* providers handed to one UpdateSpendProviders call
MaxNewAfterReport == 3  \* the same, for a call that follows CreateReport
MaxRecords == 2     \* raw usage records in one group
DurBits == 10       \* width of time.Duration in the model (int64 in Go)

Min(S) == CHOOSE x \in S : \A y \in S : x <= y
Max(S) == CHOOSE x \in S : \A y \in S : x >= y
Range(s) == {s[i] : i \in 1..Len(s)}
SeqsUpTo(S, n) == UNION {[1..k -> S] : k \in 0..n}
\* The element of a set of one element.  Only({F(x) : x \in {e}}) is F(e), with e
\* evaluated once.
Only(S) == CHOOSE x \in S : TRUE

(***************************************************************************)
(* Constants of the package.                                               *)
(***************************************************************************)
aws == "aws"
ec2 == "ec2"

(***************************************************************************)
(* Providers.  A declared provider carries a manually set cost (0: none)   *)
(* and possibly manual accounts; the caller of the merge builds providers  *)
(* with a freshly computed cost.                                           *)
(***************************************************************************)
Names == {aws, "gcp", "azure"}
ManualAccounts(name) ==
    IF name = "gcp" THEN <<[Name |-> "manual", Services |-> <<>>]>> ELSE <<>>
DeclaredPool ==
    {[Name |-> n, Cost |-> c, Accounts |-> ManualAccounts(n)] : n \in Names, c \in {0, 10}}
NewPool ==
    {[Name |-> n, Cost |-> c, Accounts |-> <<>>] : n \in Names, c \in {5, 15}}

\* &Output{}: no providers, the strings of the Report empty.
NoOutput == [Providers |-> <<>>, Report |-> [Begin |-> <<>>, End |-> <<>>, Generated |-> <<>>]]
\* Nothing printed, no report file, no file handle open.
NoFs == [stdout |-> <<>>, exists |-> FALSE, file |-> <<>>, open |-> 0]

(***************************************************************************)
(* UpdateSpendProviders (spend.go 47-61).                                  *)
(***************************************************************************)
\* A faulty variant: the scan keeps the last provider of that name, as without the break.
FindProviderLast(h, provs, name) ==
    LET hits == {j \in 1..Len(provs) : h[provs[j]].Name = name}
    IN  IF hits = {} THEN 0 ELSE Max(hits)

\* The inner loop: the index of the first provider of provs named name, 0 if none.
FindProvider(h, provs, name) ==
    LET hits == {j \in 1..Len(provs) : h[provs[j]].Name = name}
    IN  IF hits = {} THEN 0 ELSE Min(hits)

\* A faulty variant: the whole provider is overwritten, not its cost alone.
MergeOneWhole(st, new) ==
    LET j == FindProvider(st.heap, st.provs, st.heap[new].Name)
    IN  IF j # 0
        THEN [heap |-> [st.heap EXCEPT ![st.provs[j]] = st.heap[new]], provs |-> st.provs]
        ELSE [heap |-> st.heap, provs |-> Append(st.provs, new)]

\* A faulty variant: the new cost is added to the cost found, not put in its place.
MergeOneAdd(st, new) ==
    LET j == FindProvider(st.heap, st.provs, st.heap[new].Name)
    IN  IF j # 0
        THEN [heap |-> [st.heap EXCEPT ![st.provs[j]].Cost = @ + st.heap[new].Cost],
              provs |-> st.provs]
        ELSE [heap |-> st.heap, provs |-> Append(st.provs, new)]

\* One iteration of the outer loop, for the pointer new.
MergeOne(st, new) ==
    LET j == FindProvider(st.heap, st.provs, st.heap[new].Name)
    IN  IF j # 0
        THEN [heap |-> [st.heap EXCEPT ![st.provs[j]].Cost = st.heap[new].Cost],
              provs |-> st.provs]
        ELSE [heap |-> st.heap, provs |-> Append(st.provs, new)]

RECURSIVE MergeFrom(_, _, _)
MergeFrom(st, newProv, k) ==
    IF k > Len(newProv) THEN st
    ELSE MergeFrom(MergeOne(st, newProv[k]), newProv, k + 1)

\* A faulty variant: every new provider is looked up in the list as it was when
\* the call began, the providers not found there are appended.
MergeProvidersSnapshot(h, provs, newProv) ==
    LET Declared(p) == FindProvider(h, provs, h[p].Name) # 0
        Undeclared(p) == ~Declared(p)
        r == MergeFrom([heap |-> h, provs |-> provs], SelectSeq(newProv, Declared), 1)
    IN  [heap |-> r.heap, provs |-> r.provs \o SelectSeq(newProv, Undeclared)]

\* The heap and the Config's provider list after c.UpdateSpendProviders(newProv).
MergeProviders(h, provs, newProv) == MergeFrom([heap |-> h, provs |-> provs], newProv, 1)

\* The caller's argument: each element is a provider built for the call (a
\* record, allocated here) or a pointer the program already holds.
NewItems(h) == {<<"new", r>> : r \in NewPool} \cup {<<"ptr", p>> : p \in 1..Len(h)}
RECURSIVE Allocate(_, _, _)
Allocate(h, items, k) ==
    IF k > Len(items) THEN [heap |-> h, ptrs |-> <<>>]
    ELSE IF items[k][1] = "ptr"
         THEN LET r == Allocate(h, items, k + 1)
              IN  [heap |-> r.heap, ptrs |-> <<items[k][2]>> \o r.ptrs]
         ELSE LET r == Allocate(Append(h, items[k][2]), items, k + 1)
              IN  [heap |-> r.heap, ptrs |-> <<Len(h) + 1>> \o r.ptrs]

UpdateSpendProviders ==
    /\ last.op \notin {"UpdateSpendProviders", "UpdateSpendProvidersAgain"}
    /\ \E items \in SeqsUpTo(NewItems(heap),
                              IF last.op = "CreateReport" THEN MaxNewAfterReport
                              ELSE MaxNew) :
         LET a == Allocate(heap, items, 1)
             r == MergeProviders(a.heap, config.Providers, a.ptrs)
         IN  /\ heap' = r.heap
             /\ config' = [config EXCEPT !.Providers = r.provs]
             /\ last' = [op |-> "UpdateSpendProviders", newProv |-> a.ptrs,
                         items |-> items, preHeap |-> a.heap,
                         preProvs |-> config.Providers, after |-> last.op]
    /\ UNCHANGED <<collab, clock, output, fs, runs, input>>

\* The caller repeats its call: with the slice it passed before (rebuilt false),
\* or with a slice built again from the same values (rebuilt true).
UpdateSpendProvidersAgain ==
    /\ last.op = "UpdateSpendProviders"
    /\ \E rebuilt \in BOOLEAN :
         LET a == IF rebuilt THEN Allocate(heap, last.items, 1)
                  ELSE [heap |-> heap, ptrs |-> last.newProv]
             r == MergeProviders(a.heap, config.Providers, a.ptrs)
         IN  /\ heap' = r.heap
             /\ config' = [config EXCEPT !.Providers = r.provs]
             /\ last' = [op |-> "UpdateSpendProvidersAgain", newProv |-> a.ptrs,
                         items |-> last.items, rebuilt |-> rebuilt, preHeap |-> a.heap,
                         preProvs |-> config.Providers]
    /\ UNCHANGED <<collab, clock, output, fs, runs, input>>

(***************************************************************************)
(* The merge on its own: any declared list, one call.                      *)
(***************************************************************************)
InitMerge ==
    /\ \E decl \in SeqsUpTo(DeclaredPool, MaxDeclared) :
         /\ heap = decl
         /\ config = [Providers |-> [i \in 1..Len(decl) |-> i],
                      Duration |-> <<>>, Directory |-> ""]
    /\ collab = [fails |-> FALSE, result |-> <<>>]
    /\ clock = 0
    /\ output = NoOutput
    /\ fs = NoFs
    /\ runs = <<>>
    /\ input = <<>>
    /\ last = [op |-> "none"]

NextMerge == UpdateSpendProviders

SpecMerge == InitMerge /\ [][NextMerge]_vars

(***************************************************************************)
(* Claims about the merge.                                                 *)
(***************************************************************************)
Merged == last.op = "UpdateSpendProviders"
PreNames == {last.preHeap[p].Name : p \in Range(last.preProvs)}
NewNames == {last.preHeap[p].Name : p \in Range(last.newProv)}
\* The entry of the list the providers named x are merged into: the first one.
Target(x) ==
    LET hits == {j \in 1..Len(config.Providers) : heap[config.Providers[j]].Name = x}
    IN  config.Providers[Min(hits)]
\* The positions of newProv that hold a name for the first time, the name not declared.
Firsts ==
    {k \in 1..Len(last.newProv) :
        /\ last.preHeap[last.newProv[k]].Name \notin PreNames
        /\ \A m \in 1..(k - 1) :
             last.preHeap[last.newProv[m]].Name # last.preHeap[last.newProv[k]].Name}
RECURSIVE Ascending(_)
Ascending(S) == IF S = {} THEN <<>> ELSE <<Min(S)>> \o Ascending(S \ {Min(S)})
Appended == [i \in 1..Cardinality(Firsts) |-> last.newProv[Ascending(Firsts)[i]]]
\* The cost the entry for name x ends with: that of the last new provider named x
\* that is another object, its own when there is none.
FinalCost(x) ==
    LET t == Target(x)
        ks == {k \in 1..Len(last.newProv) :
                 last.preHeap[last.newProv[k]].Name = x /\ last.newProv[k] # t}
    IN  IF ks = {} THEN last.preHeap[t].Cost
        ELSE last.preHeap[last.newProv[Max(ks)]].Cost

\* C1: after UpdateSpendProviders(newProv) the entries that were in the list keep
\* their positions, the new providers whose name was not in the list follow them
\* in the order of newProv (one entry per name), and the first entry of each name
\* of newProv carries the cost of the last new provider of that name.
C1_MergeResult ==
    Merged =>
        /\ Len(config.Providers) = Len(last.preProvs) + Cardinality(Firsts)
        /\ SubSeq(config.Providers, 1, Len(last.preProvs)) = last.preProvs
        /\ SubSeq(config.Providers, Len(last.preProvs) + 1, Len(config.Providers)) = Appended
        /\ \A x \in NewNames : heap[Target(x)].Cost = FinalCost(x)

View(h, provs) == [i \in 1..Len(provs) |-> <<h[provs[i]].Name, h[provs[i]].Cost>>]

\* The example of the specification: [gcp:10] merged with [gcp:15, azure:5].
C1_Witness ==
    /\ Merged
    /\ View(last.preHeap, last.preProvs) = <<(<<"gcp", 10>>)>>
    /\ View(last.preHeap, last.newProv) = <<(<<"gcp", 15>>), (<<"azure", 5>>)>>
    /\ View(heap, config.Providers) = <<(<<"gcp", 15>>), (<<"azure", 5>>)>>

\* C2: a provider found by name has its cost overwritten and nothing else: every
\* object keeps its name and its accounts, an object that is not the first entry
\* of a name of newProv is unchanged, and when every name of newProv is declared
\* the list keeps its length.
C2_MergeFrame ==
    Merged =>
        /\ Len(heap) = Len(last.preHeap)
        /\ \A p \in 1..Len(heap) :
             /\ heap[p].Name = last.preHeap[p].Name
             /\ heap[p].Accounts = last.preHeap[p].Accounts
             /\ (\A x \in NewNames : p # Target(x)) => heap[p] = last.preHeap[p]
        /\ \A j \in 1..Len(last.preProvs) :
             last.preHeap[last.preProvs[j]].Name \notin NewNames
                => heap[config.Providers[j]] = last.preHeap[last.preProvs[j]]
        /\ NewNames \subseteq PreNames => Len(config.Providers) = Len(last.preProvs)

\* A declared gcp with manual accounts receives a new cost, next to an azure
\* entry no new provider names.
C2_Witness ==
    /\ Merged
    /\ Len(last.preProvs) = 2
    /\ last.preHeap[last.preProvs[1]].Name = "gcp"
    /\ last.preHeap[last.preProvs[1]].Accounts # <<>>
    /\ last.preHeap[last.preProvs[2]].Name = "azure"
    /\ View(last.preHeap, last.newProv) = <<(<<"gcp", 15>>)>>
    /\ heap[config.Providers[1]].Cost = 15
    /\ heap[config.Providers[1]].Accounts # <<>>
    /\ Len(config.Providers) = 2

(***************************************************************************)
(* Raw usage records (amazon.EC2Item) and the item aggregator.  Price and  *)
(* FixedPrice are counted in thousandths, Uptime in whole hours, Count in  *)
(* instances; the averaged fields of an Item are counted in hundredths.    *)
(* The arithmetic is exact: the rounding error of float64 and the          *)
(* narrowing to float32 are not represented, and the sums stay far from    *)
(* the limits of int.                                                      *)
(***************************************************************************)
RecordPool ==
    [Launched : BOOLEAN, Terminated : BOOLEAN, Count : {0, 5}, Uptime : {0, 3},
     Price : {0, 2341}, FixedPrice : {0, 1000}]
NaN == "NaN"

\* ceil(num / den), den > 0.
CeilDiv(num, den) == -((-num) \div den)

RECURSIVE Pow10(_)
Pow10(n) == IF n = 0 THEN 1 ELSE 10 * Pow10(n - 1)

\* roundUp (spend.go 103-110) of the rational num/den, in units of 10^-places.
roundUp(num, den, places) == CeilDiv(Pow10(places) * num, den)

RECURSIVE Total(_)
Total(vals) == IF vals = <<>> THEN 0 ELSE Head(vals) + Total(Tail(vals))

\* avg (spend.go 113-120) of values in thousandths, in hundredths.  On an empty
\* sequence the float division 0.0 / 0 yields NaN.
avg(vals) ==
    IF Len(vals) = 0 THEN NaN ELSE roundUp(Total(vals), 1000 * Len(vals), 2)

\* A faulty variant: the hours of a record count only when the record is launched.
RECURSIVE setSumsLaunchedHours(_, _)
setSumsLaunchedHours(res, items) ==
    IF items = <<>> THEN res
    ELSE LET item == Head(items)
             n == IF item.Count # 0 THEN item.Count ELSE 1
             r == [res EXCEPT
                     !.Launched = IF item.Launched THEN @ + n ELSE @,
                     !.Terminated = IF item.Terminated THEN @ + n ELSE @,
                     !.TotalHours = IF item.Launched THEN @ + item.Uptime ELSE @]
         IN  setSumsLaunchedHours(r, Tail(items))

\* The loop of setSums (spend.go 126-142).
RECURSIVE setSumsLoop(_, _)
setSumsLoop(res, items) ==
    IF items = <<>> THEN res
    ELSE LET item == Head(items)
             r1 == IF item.Launched
                   THEN IF item.Count # 0
                        THEN [res EXCEPT !.Launched = @ + item.Count]
                        ELSE [res EXCEPT !.Launched = @ + 1]
                   ELSE res
             r2 == IF item.Terminated
                   THEN IF item.Count # 0
                        THEN [r1 EXCEPT !.Terminated = @ + item.Count]
                        ELSE [r1 EXCEPT !.Terminated = @ + 1]
                   ELSE r1
         IN  setSumsLoop([r2 EXCEPT !.TotalHours = @ + item.Uptime], Tail(items))

\* setSums (spend.go 124-143).
setSums(res, items) ==
    setSumsLoop([res EXCEPT !.Launched = 0, !.Terminated = 0, !.TotalHours = 0], items)

\* The three sequences setAverages collects (spend.go 148-159).
RECURSIVE collect(_, _)
collect(acc, items) ==
    IF items = <<>> THEN acc
    ELSE LET item == Head(items)
             a1 == IF item.Price # 0
                   THEN [acc EXCEPT !.prices = Append(@, item.Price)] ELSE acc
             a2 == IF item.FixedPrice # 0
                   THEN [a1 EXCEPT !.fixedPrices = Append(@, item.FixedPrice)] ELSE a1
             a3 == IF item.Uptime # 0
                   THEN [a2 EXCEPT !.uptimes = Append(@, 1000 * item.Uptime)] ELSE a2
         IN  collect(a3, Tail(items))

\* A faulty variant: the average price is taken without the test of len(prices).
setAveragesUnguarded(st, items) ==
    LET setPrice(s0, c) ==
            [res |-> [s0.res EXCEPT !.AvgPrice = avg(c.prices)],
             avgCalls |-> Append(s0.avgCalls, c.prices)]
        setFixed(s1, c) ==
            IF Len(c.fixedPrices) # 0
            THEN [res |-> [s1.res EXCEPT !.FixedPrice = avg(c.fixedPrices)],
                  avgCalls |-> Append(s1.avgCalls, c.fixedPrices)]
            ELSE s1
        setUptime(s2, c) ==
            IF Len(c.uptimes) # 0
            THEN [res |-> [s2.res EXCEPT !.AvgUptime = avg(c.uptimes)],
                  avgCalls |-> Append(s2.avgCalls, c.uptimes)]
            ELSE s2
    IN  Only({Only({Only({setUptime(s2, c) : s2 \in {setFixed(s1, c)}})
                    : s1 \in {setPrice(st, c)}})
              : c \in {collect([prices |-> <<>>, uptimes |-> <<>>, fixedPrices |-> <<>>],
                               items)}})

\* setAverages (spend.go 147-169).  st.res is the Item, st.avgCalls the
\* arguments avg has been invoked with.
setAverages(st, items) ==
    LET setPrice(s0, c) ==
            IF Len(c.prices) # 0
            THEN [res |-> [s0.res EXCEPT !.AvgPrice = avg(c.prices)],
                  avgCalls |-> Append(s0.avgCalls, c.prices)]
            ELSE s0
        setFixed(s1, c) ==
            IF Len(c.fixedPrices) # 0
            THEN [res |-> [s1.res EXCEPT !.FixedPrice = avg(c.fixedPrices)],
                  avgCalls |-> Append(s1.avgCalls, c.fixedPrices)]
            ELSE s1
        setUptime(s2, c) ==
            IF Len(c.uptimes) # 0
            THEN [res |-> [s2.res EXCEPT !.AvgUptime = avg(c.uptimes)],
                  avgCalls |-> Append(s2.avgCalls, c.uptimes)]
            ELSE s2
    IN  Only({Only({Only({setUptime(s2, c) : s2 \in {setFixed(s1, c)}})
                    : s1 \in {setPrice(st, c)}})
              : c \in {collect([prices |-> <<>>, uptimes |-> <<>>, fixedPrices |-> <<>>],
                               items)}})

\* The Item literal of createItemFromEC2Instance: the other fields are zero.
NewItem(key) ==
    [Name |-> key.Name, ItemType |-> key.ItemType, Launched |-> 0, Terminated |-> 0,
     TotalHours |-> 0, AvgPrice |-> 0, FixedPrice |-> 0, AvgUptime |-> 0]

\* createItemFromEC2Instance (spend.go 172-181): the Item and the calls of avg.
createItemFromEC2Instance(key, items) ==
    Only({setAverages([res |-> item, avgCalls |-> <<>>], items)
          : item \in {setSums(NewItem(key), items)}})

CreateItem ==
    /\ last.op = "none"
    /\ \E r \in {createItemFromEC2Instance(input.key, input.items)} :
           last' = [op |-> "createItemFromEC2Instance", item |-> r.res,
                    avgCalls |-> r.avgCalls]
    /\ UNCHANGED <<heap, config, collab, clock, output, fs, runs, input>>

(***************************************************************************)
(* The item aggregator on its own: any group of records, aggregated once.  *)
(***************************************************************************)
InitItem ==
    /\ heap = <<>>
    /\ config = [Providers |-> <<>>, Duration |-> <<>>, Directory |-> ""]
    /\ collab = [fails |-> FALSE, result |-> <<>>]
    /\ clock = 0
    /\ output = NoOutput
    /\ fs = NoFs
    /\ runs = <<>>
    /\ \E items \in SeqsUpTo(RecordPool, MaxRecords) :
         input = [key |-> [Name |-> "m3", ItemType |-> "large"], items |-> items]
    /\ last = [op |-> "none"]

NextItem == CreateItem

SpecItem == InitItem /\ [][NextItem]_vars

(***************************************************************************)
(* Claims about the item aggregator.                                       *)
(***************************************************************************)
Aggregated == last.op = "createItemFromEC2Instance"
RECURSIVE SumOver(_, _)
SumOver(S, f) ==
    IF S = {} THEN 0 ELSE LET i == CHOOSE i \in S : TRUE IN f[i] + SumOver(S \ {i}, f)
Idx == 1..Len(input.items)
Weight == [i \in Idx |-> IF input.items[i].Count # 0 THEN input.items[i].Count ELSE 1]

\* C7: launchedCount is the sum over the launched records of count, or of 1 where
\* count is 0; terminatedCount the same over the terminated records; totalHours
\* the sum of uptimeHours over all the records, whatever their flags.
C7_Sums ==
    Aggregated =>
        /\ last.item.Launched = SumOver({i \in Idx : input.items[i].Launched}, Weight)
        /\ last.item.Terminated = SumOver({i \in Idx : input.items[i].Terminated}, Weight)
        /\ last.item.TotalHours = SumOver(Idx, [i \in Idx |-> input.items[i].Uptime])

\* A launched record with count 0 and a launched record with count 5 give 6.
C7_Witness ==
    /\ Aggregated
    /\ Len(input.items) = 2
    /\ \A i \in Idx : input.items[i].Launched /\ ~input.items[i].Terminated
    /\ input.items[1].Count = 0 /\ input.items[2].Count = 5
    /\ last.item.Launched = 6
    /\ last.item.Terminated = 0

NonZero(field) == {i \in Idx : input.items[i][field] # 0}
Mean(field, scale) ==
    IF NonZero(field) = {} THEN 0
    ELSE CeilDiv(SumOver(NonZero(field), [i \in Idx |-> scale * input.items[i][field]]),
                 10 * Cardinality(NonZero(field)))

\* C8: avg is never invoked on an empty sequence; avgPrice, fixedPrice and
\* avgUptime are each the average, rounded up to hundredths, of the non-zero
\* values of their field, and zero when the field is zero in every record.
C8_AvgNeverEmpty ==
    Aggregated =>
        /\ \A c \in 1..Len(last.avgCalls) : Len(last.avgCalls[c]) > 0
        /\ Len(last.avgCalls) =
             Cardinality({f \in {"Price", "FixedPrice", "Uptime"} : NonZero(f) # {}})
        /\ last.item.AvgPrice = Mean("Price", 1)
        /\ last.item.FixedPrice = Mean("FixedPrice", 1)
        /\ last.item.AvgUptime = Mean("Uptime", 1000)

\* A group whose prices are zero in every record while one uptime is not.
C8_Witness ==
    /\ Aggregated
    /\ Len(input.items) = 2
    /\ \A i \in Idx : input.items[i].Price = 0 /\ input.items[i].FixedPrice = 0
    /\ input.items[1].Uptime = 0 /\ input.items[2].Uptime = 3
    /\ last.avgCalls = <<(<<3000>>)>>
    /\ last.item.AvgPrice = 0 /\ last.item.FixedPrice = 0 /\ last.item.AvgUptime = 300

(***************************************************************************)
(* Errors.  An error is the sequence of its messages, the outermost first; *)
(* nil is the empty sequence and errors.Wrap puts a message in front.      *)
(***************************************************************************)
nil == <<>>
Wrap(err, msg) == IF err = nil THEN nil ELSE <<msg>> \o err

(***************************************************************************)
(* time.Duration: a signed machine integer, here of DurBits bits counting  *)
(* minutes.  Arithmetic on it wraps around as Go's int64 does.             *)
(***************************************************************************)
MinDur == -(2 ^ (DurBits - 1))
MaxDur == 2 ^ (DurBits - 1) - 1
WrapDur(x) == ((x - MinDur) % (2 ^ DurBits)) + MinDur
NegDur(d) == WrapDur(-d)
Hour == 60

(***************************************************************************)
(* time.Time and the layout "2006-01-02T15:04".  Strings are sequences of  *)
(* characters.  time.Parse reads four digits of year, '-', two of month,   *)
(* '-', two of day, 'T', one or two of hour, ':', two of minute, nothing   *)
(* after them, and rejects a field out of range.                           *)
(***************************************************************************)
Digits == {"0", "1", "2", "3", "4", "5", "6", "7", "8", "9"}
DigitVal(c) ==
    CASE c = "0" -> 0 [] c = "1" -> 1 [] c = "2" -> 2 [] c = "3" -> 3 [] c = "4" -> 4
      [] c = "5" -> 5 [] c = "6" -> 6 [] c = "7" -> 7 [] c = "8" -> 8 [] c = "9" -> 9
IsDigit(s, i) == i <= Len(s) /\ s[i] \in Digits
RECURSIVE Atoi(_)
Atoi(s) == IF s = <<>> THEN 0 ELSE 10 * Atoi(SubSeq(s, 1, Len(s) - 1)) + DigitVal(s[Len(s)])

IsLeap(y) == y % 4 = 0 /\ (y % 100 # 0 \/ y % 400 = 0)
DaysIn(m, y) ==
    IF m = 2 THEN (IF IsLeap(y) THEN 29 ELSE 28)
    ELSE IF m \in {4, 6, 9, 11} THEN 30 ELSE 31
\* Days from 1970-01-01 to the civil date y-m-d.
DaysFromCivil(y, m, d) ==
    LET yy == IF m <= 2 THEN y - 1 ELSE y
        era == yy \div 400
        yoe == yy - era * 400
        mp == IF m > 2 THEN m - 3 ELSE m + 9
        doy == (153 * mp + 2) \div 5 + d - 1
        doe == yoe * 365 + yoe \div 4 - yoe \div 100 + doy
    IN  era * 146097 + doe - 719468
\* The civil date and time of the instant t, what Time.String() renders.
TimeString(t) ==
    LET days == t \div 1440
        z == days + 719468
        era == z \div 146097
        doe == z - era * 146097
        yoe == (doe - doe \div 1460 + doe \div 36524 - doe \div 146096) \div 365
        doy == doe - (365 * yoe + yoe \div 4 - yoe \div 100)
        mp == (5 * doy + 2) \div 153
        d == doy - (153 * mp + 2) \div 5 + 1
        m == IF mp < 10 THEN mp + 3 ELSE mp - 9
        y == yoe + era * 400 + (IF m <= 2 THEN 1 ELSE 0)
    IN  <<y, m, d, (t % 1440) \div 60, t % 60>>
\* The zero time.Time: January 1 of year 1, 00:00 UTC.
ZeroTime == DaysFromCivil(1, 1, 1) * 1440

\* time.Parse(layout, s): the instant, or an error.
ParseTime(s) ==
    LET bad(msg) == [t |-> ZeroTime, err |-> <<msg>>]
        hourLen == IF IsDigit(s, 12) /\ IsDigit(s, 13) THEN 2 ELSE 1
        c == 12 + hourLen    \* the place of ':'
    IN  IF ~(\A i \in {1, 2, 3, 4, 6, 7, 9, 10, 12} : IsDigit(s, i))
           \/ ~(Len(s) >= c /\ s[5] = "-" /\ s[8] = "-" /\ s[11] = "T" /\ s[c] = ":")
           \/ ~(IsDigit(s, c + 1) /\ IsDigit(s, c + 2))
        THEN bad("parsing time: cannot parse")
        ELSE IF Len(s) > c + 2 THEN bad("parsing time: extra text")
        ELSE LET y == Atoi(SubSeq(s, 1, 4))
                 m == Atoi(SubSeq(s, 6, 7))
                 d == Atoi(SubSeq(s, 9, 10))
                 h == Atoi(SubSeq(s, 12, c - 1))
                 mi == Atoi(SubSeq(s, c + 1, c + 2))
             IN  IF m < 1 \/ m > 12 THEN bad("parsing time: month out of range")
                 ELSE IF d < 1 \/ d > DaysIn(m, y) THEN bad("parsing time: day out of range")
                 ELSE IF h >= 24 THEN bad("parsing time: hour out of range")
                 ELSE IF mi >= 60 THEN bad("parsing time: minute out of range")
                 ELSE [t |-> DaysFromCivil(y, m, d) * 1440 + h * 60 + mi, err |-> nil]

\* Time.Add: the instants of the model are far from the limits of time.Time.
AddTime(t, d) == t + d

\* getTimes (spend.go 66-85); now is what time.Now() returns.
getTimes(s, granularity, now) ==
    IF s # <<>>
    THEN LET p == ParseTime(s)
         IN  IF p.err # nil
             THEN [res |-> [start |-> ZeroTime, end |-> ZeroTime],
                   err |-> Wrap(p.err, "incorrect start format: should be YYYY-MM-DDTHH:MM")]
             ELSE [res |-> [start |-> p.t, end |-> AddTime(p.t, granularity)], err |-> nil]
    ELSE [res |-> [start |-> AddTime(now, NegDur(granularity)), end |-> now], err |-> nil]

S_Jan1 == <<"2", "0", "2", "3", "-", "0", "1", "-", "0", "1", "T", "0", "0", ":", "0", "0">>
S_Jan1At4 == <<"2", "0", "2", "3", "-", "0", "1", "-", "0", "1", "T", "0", "4", ":", "0", "0">>
S_Dec31 == <<"2", "0", "2", "3", "-", "1", "2", "-", "3", "1", "T", "2", "2", ":", "3", "0">>
S_Feb29 == <<"2", "0", "2", "4", "-", "0", "2", "-", "2", "9", "T", "2", "3", ":", "5", "9">>
S_Feb30 == <<"2", "0", "2", "3", "-", "0", "2", "-", "3", "0", "T", "0", "0", ":", "0", "0">>
S_ShortHour == <<"2", "0", "2", "3", "-", "0", "1", "-", "0", "1", "T", "4", ":", "0", "0">>
S_DateOnly == <<"2", "0", "2", "3", "-", "0", "1", "-", "0", "1">>
S_Seconds == S_Jan1 \o <<":", "0", "0">>
S_Slashes == <<"0", "1", "/", "0", "1", "/", "2", "0", "2", "3", " ", "0", "0", ":", "0", "0">>
S_Hour24 == <<"2", "0", "2", "3", "-", "0", "1", "-", "0", "1", "T", "2", "4", ":", "0", "0">>
StartStrings ==
    {<<>>, S_Jan1, S_Jan1At4, S_Dec31, S_Feb29, S_Feb30, S_ShortHour, S_DateOnly,
     S_Seconds, S_Slashes, S_Hour24}
Granularities == {MinDur, MinDur + 1, -4 * Hour, -1, 0, 1, Hour, 4 * Hour, MaxDur}
ClockStart == DaysFromCivil(2023, 6, 15) * 1440 + 12 * 60
Clocks == {ClockStart, ClockStart + 1}

GetTimes ==
    /\ last.op = "none"
    /\ LET r == getTimes(input.s, input.granularity, clock)
       IN  last' = [op |-> "getTimes", err |-> r.err, res |-> r.res]
    /\ UNCHANGED <<heap, config, collab, clock, output, fs, runs, input>>

(***************************************************************************)
(* time.ParseDuration, for durations written in hours and minutes: a sign, *)
(* then numbers each followed by its unit; "0" needs no unit.              *)
(***************************************************************************)
RECURSIVE LeadingDigits(_)
LeadingDigits(s) == IF IsDigit(s, 1) THEN 1 + LeadingDigits(Tail(s)) ELSE 0
RECURSIVE LeadingLetters(_)
LeadingLetters(s) ==
    IF s # <<>> /\ s[1] \notin Digits THEN 1 + LeadingLetters(Tail(s)) ELSE 0
Drop(s, n) == SubSeq(s, n + 1, Len(s))
UnitMinutes(u) == IF u = <<"h">> THEN Hour ELSE IF u = <<"m">> THEN 1 ELSE 0

RECURSIVE DurationTerms(_, _)
DurationTerms(s, d) ==
    IF s = <<>> THEN [d |-> d, err |-> nil]
    ELSE LET n == LeadingDigits(s)
             rest == Drop(s, n)
             u == LeadingLetters(rest)
             unit == UnitMinutes(SubSeq(rest, 1, u))
             v == Atoi(SubSeq(s, 1, n))
         IN  IF n = 0 THEN [d |-> 0, err |-> <<"time: invalid duration">>]
             ELSE IF u = 0 THEN [d |-> 0, err |-> <<"time: missing unit in duration">>]
             ELSE IF unit = 0 THEN [d |-> 0, err |-> <<"time: unknown unit in duration">>]
             ELSE IF d + v * unit > -MinDur
                  THEN [d |-> 0, err |-> <<"time: invalid duration">>]
             ELSE DurationTerms(Drop(rest, u), d + v * unit)

ParseDuration(s) ==
    LET neg == s # <<>> /\ s[1] = "-"
        body == IF s # <<>> /\ s[1] \in {"-", "+"} THEN Tail(s) ELSE s
        r == DurationTerms(body, 0)
    IN  IF body = <<"0">> THEN [d |-> 0, err |-> nil]
        ELSE IF body = <<>> THEN [d |-> 0, err |-> <<"time: invalid duration">>]
        ELSE IF r.err # nil THEN r
        ELSE IF neg THEN [d |-> WrapDur(-r.d), err |-> nil]
        ELSE IF r.d > MaxDur THEN [d |-> 0, err |-> <<"time: invalid duration">>]
        ELSE r

\* GetGranularity (spend.go 31-42).
GetGranularity(c) ==
    LET configDur == c.Duration
        p == ParseDuration(configDur)
    IN  IF configDur # <<>>
        THEN IF p.err # nil
             THEN [granularity |-> 0, err |-> Wrap(p.err, "Could not parse duration"),
                   failed |-> "duration"]
             ELSE [granularity |-> p.d, err |-> nil, failed |-> ""]
        ELSE [granularity |-> 4 * Hour, err |-> nil, failed |-> ""]

DurationStrings ==
    {<<>>, <<"4", "h">>, <<"1", "h", "3", "0", "m">>, <<"-", "4", "h">>, <<"0">>,
     <<"9", "0">>, <<"4", "x">>, <<"a", "b", "c">>, <<"9", "9", "h">>}

CallGetGranularity ==
    /\ last.op = "none"
    /\ LET r == GetGranularity(config)
       IN  last' = [op |-> "GetGranularity", err |-> r.err, failed |-> r.failed,
                    granularity |-> r.granularity]
    /\ UNCHANGED <<heap, config, collab, clock, output, fs, runs, input>>

(***************************************************************************)
(* The time window resolver and the granularity on their own.              *)
(***************************************************************************)
InitTimes ==
    /\ heap = <<>>
    /\ \E dur \in DurationStrings :
         config = [Providers |-> <<>>, Duration |-> dur, Directory |-> ""]
    /\ collab = [fails |-> FALSE, result |-> <<>>]
    /\ clock \in Clocks
    /\ output = NoOutput
    /\ fs = NoFs
    /\ runs = <<>>
    /\ \E s \in StartStrings, g \in Granularities : input = [s |-> s, granularity |-> g]
    /\ last = [op |-> "none"]

NextTimes == GetTimes \/ CallGetGranularity

SpecTimes == InitTimes /\ [][NextTimes]_vars

(***************************************************************************)
(* Claims about the time window resolver.                                  *)
(***************************************************************************)
Resolved == last.op = "getTimes"

\* C6: a start that parses gives start = the parsed time and end = start +
\* granularity; a start that does not parse gives an error; no start gives end =
\* now and start = end - granularity; in every successful case end - start is
\* the granularity.
C6_Window ==
    Resolved =>
        /\ (input.s # <<>> /\ ParseTime(input.s).err = nil) =>
              /\ last.err = nil
              /\ last.res.start = ParseTime(input.s).t
              /\ last.res.end = last.res.start + input.granularity
        /\ (input.s # <<>> /\ ParseTime(input.s).err # nil) => last.err # nil
        /\ input.s = <<>> =>
              /\ last.err = nil
              /\ last.res.end = clock
              /\ last.res.start = last.res.end - input.granularity
        /\ last.err = nil => last.res.end - last.res.start = input.granularity

\* The same, leaving out the one duration whose negation is not representable.
C6_WindowRepresentable ==
    (Resolved /\ ~(input.s = <<>> /\ input.granularity = MinDur)) => C6_Window

\* The example of the specification: 2023-01-01T00:00 with 4h ends at 04:00.
C6_Witness ==
    /\ Resolved
    /\ input.s = S_Jan1 /\ input.granularity = 4 * Hour
    /\ last.err = nil
    /\ last.res.start = ParseTime(S_Jan1).t
    /\ last.res.end = ParseTime(S_Jan1At4).t
    /\ TimeString(last.res.end) = <<2023, 1, 1, 4, 0>>

(***************************************************************************)
(* The billing collaborator.  Its answer maps each owner to a mapping from *)
(* *amazon.ItemKey to the records of that key: the keys are pointers, and  *)
(* two key objects may hold the same name and type.  A Go map is ranged    *)
(* over in an order the runtime chooses at each loop.                      *)
(***************************************************************************)
Owners == {"dev", "ops"}
\* The key objects the collaborator hands out, by pointer.
ItemKeys ==
    <<[Name |-> "m3", ItemType |-> "large"], [Name |-> "m3", ItemType |-> "large"],
      [Name |-> "c4", ItemType |-> "spot"]>>
KeySets == {{1}, {1, 2}, {1, 3}}
Usage(k) ==
    LET r == [Launched |-> TRUE, Terminated |-> FALSE, Count |-> 0, Uptime |-> 3,
              Price |-> 2341, FixedPrice |-> 0]
    IN  IF k = 1 THEN <<r, [r EXCEPT !.Count = 5]>>
        ELSE IF k = 2 THEN <<[r EXCEPT !.Terminated = TRUE, !.Price = 0]>>
        ELSE <<[r EXCEPT !.Launched = FALSE, !.FixedPrice = 1000]>>
CollabResults ==
    {[o \in O |-> [k \in ks |-> Usage(k)]] : O \in {{}, {"dev"}, Owners}, ks \in KeySets}
Collabs ==
    {[fails |-> TRUE, result |-> <<>>]} \cup {[fails |-> FALSE, result |-> r] : r \in CollabResults}

\* The orders in which a range over a map with key set S may visit it.
Perms(S) == {q \in [1..Cardinality(S) -> S] : \A i, j \in DOMAIN q : q[i] = q[j] => i = j}
RangeOrders(result) ==
    [owners : Perms(DOMAIN result),
     keys : {f \in [DOMAIN result -> UNION {Perms(DOMAIN result[o]) : o \in DOMAIN result}] :
               \A o \in DOMAIN result : Range(f[o]) = DOMAIN result[o]}]

\* getAWSAccounts (spend.go 185-215): the accounts, the error, and the time
\* ranges the collaborator was called with.
getAWSAccounts(reportRange, c, order) ==
    IF c.fails
    THEN [accounts |-> <<>>,
          err |-> Wrap(<<"RequestError: send request failed">>, "Problem getting EC2 instances"),
          calls |-> <<reportRange>>]
    ELSE [accounts |->
            [i \in 1..Len(order.owners) |->
               LET owner == order.owners[i]
                   keys == order.keys[owner]
               IN  [Name |-> owner,
                    Services |->
                      <<[Name |-> ec2,
                         Items |-> [j \in 1..Len(keys) |->
                            createItemFromEC2Instance(ItemKeys[keys[j]],
                                                      c.result[owner][keys[j]]).res]]>>]],
          err |-> nil,
          calls |-> <<reportRange>>]

\* getAWSProvider (spend.go 218-228); a provider of no use is <<>>.
getAWSProvider(reportRange, c, order) ==
    Only({IF a.err # nil
          THEN [provider |-> <<>>, err |-> a.err, calls |-> a.calls]
          ELSE [provider |-> [Name |-> aws, Cost |-> 0, Accounts |-> a.accounts],
                err |-> nil, calls |-> a.calls]
          : a \in {getAWSAccounts(reportRange, c, order)}})

\* A faulty variant: a declared provider named like the computed one is left out.
getAllProvidersMerged(h, provs, reportRange, c, order) ==
    Only({IF a.err # nil
          THEN [heap |-> h, providers |-> <<>>, err |-> a.err, calls |-> a.calls]
          ELSE [heap |-> Append(h, a.provider),
                providers |-> <<Len(h) + 1>> \o SelectSeq(provs, LAMBDA p : h[p].Name # aws),
                err |-> nil, calls |-> a.calls]
          : a \in {getAWSProvider(reportRange, c, order)}})

\* A faulty variant: the Output receives copies of the declared providers.
getAllProvidersCopied(h, provs, reportRange, c, order) ==
    Only({IF a.err # nil
          THEN [heap |-> h, providers |-> <<>>, err |-> a.err, calls |-> a.calls]
          ELSE [heap |-> Append(h, a.provider) \o [i \in 1..Len(provs) |-> h[provs[i]]],
                providers |-> <<Len(h) + 1>> \o [i \in 1..Len(provs) |-> Len(h) + 1 + i],
                err |-> nil, calls |-> a.calls]
          : a \in {getAWSProvider(reportRange, c, order)}})

\* getAllProviders (spend.go 231-241): the computed provider is a new object, the
\* declared ones are the pointers of the Config.
getAllProviders(h, provs, reportRange, c, order) ==
    Only({IF a.err # nil
          THEN [heap |-> h, providers |-> <<>>, err |-> a.err, calls |-> a.calls]
          ELSE [heap |-> Append(h, a.provider),
                providers |-> <<Len(h) + 1>> \o provs,
                err |-> nil, calls |-> a.calls]
          : a \in {getAWSProvider(reportRange, c, order)}})

\* A faulty variant: the report's metadata is filled in before the providers are looked at.
CreateReportEarlyMetadata(start, granularity, now, h, provs, c, order) ==
    LET report(t) == [Begin |-> TimeString(t.res.start), End |-> TimeString(t.res.end),
                      Generated |-> TimeString(now)]
        providers(t) ==
            Only({IF a.err # nil
                  THEN [output |-> [Providers |-> a.providers, Report |-> report(t)],
                        heap |-> a.heap, calls |-> a.calls, failed |-> "collaborator",
                        err |-> Wrap(a.err, "Problem retrieving providers information")]
                  ELSE [output |-> [Providers |-> a.providers, Report |-> report(t)],
                        heap |-> a.heap, calls |-> a.calls, failed |-> "", err |-> nil]
                  : a \in {getAllProviders(h, provs, t.res, c, order)}})
    IN  Only({IF t.err # nil
              THEN [output |-> NoOutput, heap |-> h, calls |-> <<>>, failed |-> "start",
                    err |-> Wrap(t.err, "Problem retrieving report start and end")]
              ELSE providers(t)
              : t \in {getTimes(start, granularity, now)}})

\* CreateReport (spend.go 244-262).
CreateReport(start, granularity, now, h, provs, c, order) ==
    LET providers(t) ==
            Only({IF a.err # nil
                  THEN [output |-> [NoOutput EXCEPT !.Providers = a.providers],
                        heap |-> a.heap, calls |-> a.calls, failed |-> "collaborator",
                        err |-> Wrap(a.err, "Problem retrieving providers information")]
                  ELSE [output |-> [Providers |-> a.providers,
                                    Report |-> [Begin |-> TimeString(t.res.start),
                                                End |-> TimeString(t.res.end),
                                                Generated |-> TimeString(now)]],
                        heap |-> a.heap, calls |-> a.calls, failed |-> "", err |-> nil]
                  : a \in {getAllProviders(h, provs, t.res, c, order)}})
    IN  Only({IF t.err # nil
              THEN [output |-> NoOutput, heap |-> h, calls |-> <<>>, failed |-> "start",
                    err |-> Wrap(t.err, "Problem retrieving report start and end")]
              ELSE providers(t)
              : t \in {getTimes(start, granularity, now)}})

\* The Config as a value: what its pointers lead to.
ConfigValue(h, c) ==
    [Providers |-> [i \in 1..Len(c.Providers) |-> h[c.Providers[i]]],
     Duration |-> c.Duration, Directory |-> c.Directory]

ReportStarts == {<<>>, S_Jan1, S_Feb30}
ReportGranularities == {4 * Hour}

CallCreateReport ==
    /\ Len(runs) < input.runs
    /\ \E start \in ReportStarts, granularity \in ReportGranularities,
          order \in RangeOrders(collab.result) :
         /\ \E r \in {CreateReport(start, granularity, clock, heap, config.Providers,
                                    collab, order)} :
                /\ heap' = r.heap
                /\ output' = r.output
                /\ runs' = Append(runs,
                     [inputs |-> [start |-> start, granularity |-> granularity,
                                  now |-> clock, config |-> ConfigValue(heap, config),
                                  collab |-> collab],
                      err |-> r.err, calls |-> r.calls, report |-> r.output.Report,
                      printed |-> FALSE, bytes |-> <<>>])
                /\ last' = [op |-> "CreateReport", start |-> start,
                            granularity |-> granularity, now |-> clock, err |-> r.err,
                            failed |-> r.failed, calls |-> r.calls, preHeap |-> heap,
                            preProvs |-> config.Providers]
    /\ UNCHANGED <<config, collab, clock, fs, input>>

(***************************************************************************)
(* Output.Print.  json.MarshalIndent writes the Output as a document: the         *)
(* providers, each with what its pointer leads to, then the report.  The   *)
(* outcomes of MarshalIndent, os.Create and File.Write are the             *)
(* environment's: env.marshal and env.create say whether they succeed,     *)
(* env.write is "ok", "none" (nothing written) or "short" (a part written).*)
(***************************************************************************)
MarshalIndent(out, h) ==
    <<(<<"providers",
         [i \in 1..Len(out.Providers) |->
            <<(<<"name", h[out.Providers[i]].Name>>),
              (<<"accounts", h[out.Providers[i]].Accounts>>),
              (<<"cost", h[out.Providers[i]].Cost>>)>>]>>),
      (<<"report",
         <<(<<"begin", out.Report.Begin>>), (<<"end", out.Report.End>>),
           (<<"generated", out.Report.Generated>>)>>>>)>>

PrintEnvs == [marshal : BOOLEAN, create : BOOLEAN, write : {"ok", "none", "short"}]

\* A faulty variant: the file is closed after the write, on the way that
\* succeeds, and not by a deferred call.
OutputPrintNoDefer(out, h, c, filepath, f, env) ==
    LET jsonReport == MarshalIndent(out, h)
        path == c.Directory \o "/" \o filepath
        done(f2, err, failed, opens, closes, bytes) ==
            [fs |-> [f2 EXCEPT !.open = @ + opens - closes], err |-> err,
             failed |-> failed, opens |-> opens, closes |-> closes, path |-> path,
             bytes |-> bytes]
    IN  IF ~env.marshal
        THEN done(f, Wrap(<<"json: unsupported value">>, "Problem marshalling report into JSON"),
                  "marshal", 0, 0, <<>>)
        ELSE IF c.Directory = ""
        THEN done([f EXCEPT !.stdout = Append(@, <<jsonReport, "\n">>)], nil, "", 0, 0,
                  jsonReport)
        ELSE IF ~env.create
        THEN done(f, Wrap(<<"open: permission denied">>, "Problem creating file"),
                  "create", 0, 0, <<>>)
        ELSE IF env.write # "ok"
        THEN done([f EXCEPT !.exists = TRUE,
                            !.file = IF env.write = "short" THEN <<jsonReport[1]>> ELSE <<>>],
                  <<"write: no space left on device">>, "write", 1, 0, <<>>)
        ELSE done([f EXCEPT !.exists = TRUE, !.file = jsonReport],
                  Wrap(nil, "Problem writing to file"), "", 1, 1, jsonReport)

\* Output.Print (spend.go 266-289): the destination afterwards, the error, the
\* stage that failed, and how often a file was opened and closed.
OutputPrint(out, h, c, filepath, f, env) ==
    LET jsonReport == MarshalIndent(out, h)
        path == c.Directory \o "/" \o filepath
        done(f2, err, failed, opens, closes, bytes) ==
            [fs |-> [f2 EXCEPT !.open = @ + opens - closes], err |-> err,
             failed |-> failed, opens |-> opens, closes |-> closes, path |-> path,
             bytes |-> bytes]
    IN  IF ~env.marshal
        THEN done(f, Wrap(<<"json: unsupported value">>, "Problem marshalling report into JSON"),
                  "marshal", 0, 0, <<>>)
        ELSE IF c.Directory = ""
        THEN done([f EXCEPT !.stdout = Append(@, <<jsonReport, "\n">>)], nil, "", 0, 0,
                  jsonReport)
        ELSE IF ~env.create
        THEN done(f, Wrap(<<"open: permission denied">>, "Problem creating file"),
                  "create", 0, 0, <<>>)
        ELSE IF env.write # "ok"
        THEN done([f EXCEPT !.exists = TRUE,
                            !.file = IF env.write = "short" THEN <<jsonReport[1]>> ELSE <<>>],
                  <<"write: no space left on device">>, "write", 1, 1, <<>>)
        ELSE done([f EXCEPT !.exists = TRUE, !.file = jsonReport],
                  Wrap(nil, "Problem writing to file"), "", 1, 1, jsonReport)

CallPrint ==
    /\ last.op = "CreateReport"
    /\ \E env \in PrintEnvs :
         \E r \in {OutputPrint(output, heap, config, "report.json", fs, env)} :
             /\ fs' = r.fs
             /\ runs' = [runs EXCEPT ![Len(runs)].printed = (r.err = nil),
                                     ![Len(runs)].bytes = r.bytes]
             /\ last' = [op |-> "Print", err |-> r.err, failed |-> r.failed,
                         opens |-> r.opens, closes |-> r.closes, path |-> r.path,
                         preFs |-> fs]
    /\ UNCHANGED <<heap, config, collab, clock, output, input>>

\* Time passes.
Tick ==
    /\ clock = ClockStart
    /\ clock' = clock + 1
    /\ UNCHANGED <<heap, config, collab, output, fs, runs, input, last>>

(***************************************************************************)
(* Report generation: a Config, a collaborator, and one run of             *)
(* GetGranularity, CreateReport and Print.  input.runs is the number of    *)
(* reports the caller asks for.                                            *)
(***************************************************************************)
DeclaredGcp == [Name |-> "gcp", Cost |-> 10, Accounts |-> ManualAccounts("gcp")]
DeclaredAws == [Name |-> aws, Cost |-> 10, Accounts |-> <<>>]
ReportDeclared == {<<>>, <<DeclaredGcp>>, <<DeclaredAws, DeclaredGcp>>}

InitReport ==
    /\ \E decl \in ReportDeclared, dir \in {"", "reports"},
          dur \in {<<>>, <<"4", "h">>, <<"a", "b", "c">>} :
         /\ heap = decl
         /\ config = [Providers |-> [i \in 1..Len(decl) |-> i],
                      Duration |-> dur, Directory |-> dir]
    /\ collab \in Collabs
    /\ clock = ClockStart
    /\ output = NoOutput
    /\ fs = NoFs
    /\ runs = <<>>
    /\ input = [runs |-> 1]
    /\ last = [op |-> "none"]

NextReport == CallGetGranularity \/ CallCreateReport \/ CallPrint \/ Tick

SpecReport == InitReport /\ [][NextReport]_vars

(***************************************************************************)
(* Repeated runs: the same Config and the same collaborator answer, two    *)
(* reports created and printed.                                            *)
(***************************************************************************)
InitRuns ==
    /\ \E decl \in {<<>>, <<DeclaredGcp>>}, dir \in {"", "reports"} :
         /\ heap = decl
         /\ config = [Providers |-> [i \in 1..Len(decl) |-> i],
                      Duration |-> <<>>, Directory |-> dir]
    /\ collab \in {c \in Collabs : ~c.fails}
    /\ clock = ClockStart
    /\ output = NoOutput
    /\ fs = NoFs
    /\ runs = <<>>
    /\ input = [runs |-> 2]
    /\ last = [op |-> "none"]

NextRuns == CallCreateReport \/ CallPrint \/ Tick

SpecRuns == InitRuns /\ [][NextRuns]_vars

(***************************************************************************)
(* Claims about report generation.                                         *)
(***************************************************************************)
Created == last.op = "CreateReport"
StartFails(start) == start # <<>> /\ ParseTime(start).err # nil

\* C3: on success the Output holds the computed provider, named "aws", at index
\* 0, then the declared providers of the Config in the Config's order, none
\* merged by name; the Config's provider list is what it was before the call.
C3_ReportProviders ==
    (Created /\ last.err = nil) =>
        /\ Len(output.Providers) = 1 + Len(config.Providers)
        /\ output.Providers[1] = Len(last.preHeap) + 1
        /\ heap[output.Providers[1]].Name = aws
        /\ {a.Name : a \in Range(heap[output.Providers[1]].Accounts)} = DOMAIN collab.result
        /\ \A i \in 1..Len(config.Providers) : output.Providers[i + 1] = config.Providers[i]
        /\ config.Providers = last.preProvs
        /\ \A p \in 1..Len(last.preHeap) : heap[p] = last.preHeap[p]

\* A declared provider named "aws" stays in the Output beside the computed one.
C3_Witness ==
    /\ Created /\ last.err = nil
    /\ Len(output.Providers) = 3
    /\ heap[output.Providers[1]].Name = aws /\ heap[output.Providers[1]].Accounts # <<>>
    /\ heap[output.Providers[2]].Name = aws /\ heap[output.Providers[2]].Cost = 10
    /\ heap[output.Providers[3]].Name = "gcp"

\* C4: a start that does not parse makes CreateReport return an error without
\* calling the collaborator; a failing collaborator makes it return an error
\* after one call; the Output handed back with an error has no providers and
\* empty begin, end and generated, and the Config and its providers are as before.
C4_AbortNoPartial ==
    Created =>
        /\ StartFails(last.start) => (last.err # nil /\ last.calls = <<>>)
        /\ (~StartFails(last.start) /\ collab.fails) =>
              (last.err # nil /\ Len(last.calls) = 1)
        /\ (~StartFails(last.start) /\ ~collab.fails) => last.err = nil
        /\ last.err # nil =>
              /\ output = NoOutput
              /\ heap = last.preHeap
              /\ config.Providers = last.preProvs

\* The collaborator fails: one call, an error, an empty Output.
C4_Witness ==
    /\ Created
    /\ ~StartFails(last.start) /\ collab.fails
    /\ Len(last.calls) = 1
    /\ last.err # nil
    /\ output.Providers = <<>> /\ output.Report.Begin = <<>>
    /\ output.Report.End = <<>> /\ output.Report.Generated = <<>>

\* The message each stage of the report path puts in front of its error.
StageMessage(stage) ==
    CASE stage = "duration" -> "Could not parse duration"
      [] stage = "start" -> "Problem retrieving report start and end"
      [] stage = "collaborator" -> "Problem retrieving providers information"
      [] stage = "marshal" -> "Problem marshalling report into JSON"
      [] stage = "create" -> "Problem creating file"
      [] stage = "write" -> "Problem writing to file"

\* C5: every failure on the report path (duration parse, start parse,
\* collaborator, marshalling, file creation, file write) reaches the caller as a
\* non-nil error wrapped with the message of the stage that failed.
C5_ErrorsWrapped ==
    (last.op \in {"GetGranularity", "CreateReport", "Print"} /\ last.failed # "") =>
        /\ last.err # nil
        /\ Len(last.err) >= 2
        /\ last.err[1] = StageMessage(last.failed)

\* The same for every stage but the file write.
C5_ErrorsWrappedButWrite ==
    (last.op \in {"GetGranularity", "CreateReport", "Print"}
        /\ last.failed \notin {"", "write"}) =>
        /\ last.err # nil
        /\ Len(last.err) >= 2
        /\ last.err[1] = StageMessage(last.failed)

\* C9: two runs (CreateReport, then Print) with the same start, granularity,
\* clock, Config and collaborator answer print the same bytes.
C9_SameBytes ==
    \A i, j \in 1..Len(runs) :
        (runs[i].printed /\ runs[j].printed /\ runs[i].inputs = runs[j].inputs)
            => runs[i].bytes = runs[j].bytes

\* The same for the answers a range can visit in one order only: at most one
\* owner, one key per owner.
C9_SameBytesOneOrder ==
    (Cardinality(DOMAIN collab.result) <= 1
        /\ \A o \in DOMAIN collab.result : Cardinality(DOMAIN collab.result[o]) <= 1)
    => C9_SameBytes

\* C10: the computed provider has at most one Account per owner, each Account
\* has the one Service "ec2", and a Service has at most one Item per name and
\* item type.
C10_UniqueKeys ==
    output.Providers # <<>> =>
        LET accounts == heap[output.Providers[1]].Accounts
        IN  /\ \A i, j \in 1..Len(accounts) : accounts[i].Name = accounts[j].Name => i = j
            /\ \A i \in 1..Len(accounts) :
                 /\ Len(accounts[i].Services) = 1
                 /\ accounts[i].Services[1].Name = ec2
                 /\ LET items == accounts[i].Services[1].Items
                    IN  \A j, k \in 1..Len(items) :
                          (items[j].Name = items[k].Name
                             /\ items[j].ItemType = items[k].ItemType) => j = k

\* The same, with one Item per key object of the collaborator's mapping.
C10_OneItemPerKeyObject ==
    output.Providers # <<>> =>
        LET accounts == heap[output.Providers[1]].Accounts
        IN  /\ \A i, j \in 1..Len(accounts) : accounts[i].Name = accounts[j].Name => i = j
            /\ \A i \in 1..Len(accounts) :
                 /\ Len(accounts[i].Services) = 1
                 /\ accounts[i].Services[1].Name = ec2
                 /\ Len(accounts[i].Services[1].Items)
                      = Cardinality(DOMAIN collab.result[accounts[i].Name])

(***************************************************************************)
(* Claims about the serializer's destination.                              *)
(***************************************************************************)
Printed == last.op = "Print"

\* C11: Print without a directory writes the report to standard output and
\* opens no file; with a directory it opens the file directory/filename at most
\* once, and when Print returns, after a write that succeeded or failed, every
\* handle it opened is closed; a failed creation leaves no handle open and no
\* file; nothing is written to standard output when a directory is set.
C11_HandleReleased ==
    Printed =>
        /\ fs.open = 0
        /\ last.opens <= 1
        /\ last.closes = last.opens
        /\ (config.Directory = "" \/ last.failed \in {"marshal", "create"}) =>
              (last.opens = 0 /\ fs.exists = last.preFs.exists /\ fs.file = last.preFs.file)
        /\ (config.Directory = "" /\ last.failed = "") =>
              (last.err = nil /\ Len(fs.stdout) = Len(last.preFs.stdout) + 1)
        /\ config.Directory # "" =>
              /\ fs.stdout = last.preFs.stdout
              /\ last.path = config.Directory \o "/" \o "report.json"
              /\ last.failed \in {"", "write"} => (last.opens = 1 /\ fs.exists)

\* The write fails after the file was created: the handle is closed all the same.
C11_Witness ==
    /\ Printed
    /\ config.Directory = "reports"
    /\ last.failed = "write"
    /\ last.opens = 1 /\ last.closes = 1
    /\ fs.exists /\ fs.open = 0

(***************************************************************************)
(* The merge called twice in a row with the same new providers.            *)
(***************************************************************************)
NextMergeTwice == UpdateSpendProviders \/ UpdateSpendProvidersAgain

SpecMergeTwice == InitMerge /\ [][NextMergeTwice]_vars

MergedAgain == last.op = "UpdateSpendProvidersAgain"

\* C12: a second UpdateSpendProviders with the same new providers leaves the
\* Config's list as the first call left it: the same entries in the same order,
\* the same length, each with the name, cost and accounts it had; when the very
\* slice is passed again no provider object changes at all.
C12_MergeIdempotent ==
    MergedAgain =>
        /\ config.Providers = last.preProvs
        /\ \A i \in 1..Len(config.Providers) :
             heap[config.Providers[i]] = last.preHeap[last.preProvs[i]]
        /\ ~last.rebuilt => heap = last.preHeap

\* A new list that names an undeclared provider twice, with two costs, and a
\* declared one: the second call changes nothing.
C12_Witness ==
    /\ MergedAgain
    /\ Len(last.newProv) = 2
    /\ heap[last.newProv[1]].Name = heap[last.newProv[2]].Name
    /\ last.newProv[1] # last.newProv[2]
    /\ last.items[1][1] = "new" /\ last.items[2][1] = "new"
    /\ last.items[1][2].Cost # last.items[2][2].Cost
    /\ Len(config.Providers) = 2
    /\ ~last.rebuilt
    /\ config.Providers[2] = last.newProv[1]
    /\ heap[config.Providers[2]].Cost = last.items[2][2].Cost

(***************************************************************************)
(* Names in the Config's provider list.                                    *)
(***************************************************************************)
UniqueNames(h, provs) ==
    \A i, j \in 1..Len(provs) : h[provs[i]].Name = h[provs[j]].Name => i = j
\* The positions of newProv that hold the name x.
Occurrences(x) == {k \in 1..Len(last.newProv) : last.preHeap[last.newProv[k]].Name = x}

\* C13: when no two providers of the Config share a name before
\* UpdateSpendProviders, none do after it; a name that was absent and occurs in
\* newProv, once or more, has one entry, the provider of its first occurrence,
\* and that entry ends with the cost of the last occurrence.
C13_NamesStayUnique ==
    (Merged /\ UniqueNames(last.preHeap, last.preProvs)) =>
        /\ UniqueNames(heap, config.Providers)
        /\ \A x \in NewNames \ PreNames :
             /\ Cardinality({j \in 1..Len(config.Providers) :
                                heap[config.Providers[j]].Name = x}) = 1
             /\ Target(x) = last.newProv[Min(Occurrences(x))]
             /\ heap[Target(x)].Cost = FinalCost(x)
             /\ last.newProv[Max(Occurrences(x))] # Target(x) =>
                  heap[Target(x)].Cost
                     = last.preHeap[last.newProv[Max(Occurrences(x))]].Cost

\* An absent name twice in newProv, with two costs: one entry, the last cost.
C13_Witness ==
    /\ Merged
    /\ UniqueNames(last.preHeap, last.preProvs)
    /\ View(last.preHeap, last.preProvs) = <<(<<"gcp", 10>>)>>
    /\ View(last.preHeap, last.newProv) = <<(<<"azure", 5>>), (<<"azure", 15>>)>>
    /\ View(heap, config.Providers) = <<(<<"gcp", 10>>), (<<"azure", 15>>)>>

(***************************************************************************)
(* A report, then a merge into the same Config: the Output of CreateReport *)
(* is still held by the caller when UpdateSpendProviders runs.             *)
(***************************************************************************)
UpdateSpendProvidersAfterReport ==
    /\ last.op = "CreateReport"
    /\ UpdateSpendProviders

InitAlias ==
    /\ \E decl \in {<<DeclaredGcp>>, <<DeclaredAws, DeclaredGcp>>} :
         /\ heap = decl
         /\ config = [Providers |-> [i \in 1..Len(decl) |-> i],
                      Duration |-> <<>>, Directory |-> ""]
    /\ collab \in {c \in Collabs : ~c.fails /\ DOMAIN c.result \subseteq {"dev"}
                                   /\ \A o \in DOMAIN c.result : DOMAIN c.result[o] = {1}}
    /\ clock = ClockStart
    /\ output = NoOutput
    /\ fs = NoFs
    /\ runs = <<>>
    /\ input = [runs |-> 1]
    /\ last = [op |-> "none"]

NextAlias == CallCreateReport \/ UpdateSpendProvidersAfterReport

SpecAlias == InitAlias /\ [][NextAlias]_vars

\* UpdateSpendProviders has run on the Config a successful CreateReport read.
MergedAfterReport == Merged /\ last.after = "CreateReport" /\ output.Providers # <<>>
\* What the Output shows of its entry i: the string of each run's report is in runs.
Shown(h, i) == h[output.Providers[i]]
\* The names new providers share with declared ones.
SharedNames == NewNames \cap PreNames

====
